---- MODULE Spec2Model ----
(***************************************************************************)
(* Model of the command execution and interactive-session engine of        *)
(* v-ai-cli-control: executor.py (CommandExecutor), the command validator  *)
(* of models.py (CommandRequest.validate_command_security) and the HTTP    *)
(* handlers of main.py that call into the executor.                        *)
(*                                                                         *)
(* Text is modelled as a sequence of one-character strings, so that        *)
(* tokenization, stripping and substring tests are computed as the code    *)
(* computes them.                                                          *)
(***************************************************************************)
EXTENDS Integers, Sequences, FiniteSets, TLC

\* ------------------------------------------------------------------------
\* Text helpers (Python str semantics)
\* ------------------------------------------------------------------------

\* Python's `p in s` for strings.
Contains(s, p) ==
    \E i \in 1..(Len(s) + 1) :
        /\ i + Len(p) - 1 <= Len(s)
        /\ SubSeq(s, i, i + Len(p) - 1) = p

\* Characters str.strip() and str.split() treat as whitespace.
PyWhitespace == {" ", "\t", "\n", "\r", "\f"}

RECURSIVE LStrip(_)
LStrip(s) ==
    IF s # <<>> /\ Head(s) \in PyWhitespace THEN LStrip(Tail(s)) ELSE s

RECURSIVE RStrip(_)
RStrip(s) ==
    IF s # <<>> /\ s[Len(s)] \in PyWhitespace
    THEN RStrip(SubSeq(s, 1, Len(s) - 1))
    ELSE s

\* A strip that removes the leading whitespace only.
strip_leading(s) == LStrip(s)

\* str.strip()
Strip(s) == RStrip(LStrip(s))

\* str.split(sep) for a one-character separator: empty pieces are kept.
RECURSIVE SplitOn(_, _, _, _)
SplitOn(s, sep, cur, acc) ==
    IF s = <<>> THEN Append(acc, cur)
    ELSE IF Head(s) = sep THEN SplitOn(Tail(s), sep, <<>>, Append(acc, cur))
    ELSE SplitOn(Tail(s), sep, Append(cur, Head(s)), acc)

\* str.split() without arguments: runs of whitespace separate the words,
\* no empty words.
RECURSIVE SplitWs(_, _, _)
SplitWs(s, cur, acc) ==
    IF s = <<>> THEN (IF cur = <<>> THEN acc ELSE Append(acc, cur))
    ELSE IF Head(s) \in PyWhitespace
         THEN SplitWs(Tail(s), <<>>, IF cur = <<>> THEN acc ELSE Append(acc, cur))
         ELSE SplitWs(Tail(s), Append(cur, Head(s)), acc)

\* Membership of a value in a Python list / set given as a sequence.
InList(x, list) == \E i \in 1..Len(list) : list[i] = x

\* ------------------------------------------------------------------------
\* shlex.split(s, posix=True): whitespace_split, no comment characters
\* ------------------------------------------------------------------------

ShlexWhitespace == {" ", "\t", "\r", "\n"}
ShlexEscape == "\\"
QuoteState(c) == IF c = "\"" THEN "dq" ELSE "sq"
ShlexQuotes == {"\"", "'"}

\* The reader of shlex.read_token, run over the whole text.  state is
\* "ws" (between tokens), "a" (inside a word), "dq"/"sq" (inside quotes) or
\* "esc" (after a backslash); esc is the state to return to after an escape.
RECURSIVE ShlexRun(_, _, _, _, _, _, _)
ShlexRun(s, i, state, esc, token, quoted, toks) ==
    IF i > Len(s) THEN
        CASE state = "ws" -> [ok |-> TRUE, tokens |-> toks]
          [] state = "a" ->
                [ok |-> TRUE,
                 tokens |-> IF token # <<>> \/ quoted
                            THEN Append(toks, token) ELSE toks]
          [] OTHER -> [ok |-> FALSE, tokens |-> <<>>]
    ELSE
        LET c == s[i] IN
        CASE state = "ws" ->
                IF c \in ShlexWhitespace
                THEN ShlexRun(s, i + 1, "ws", esc, token, quoted, toks)
                ELSE IF c = ShlexEscape
                THEN ShlexRun(s, i + 1, "esc", "a", token, quoted, toks)
                ELSE IF c \in ShlexQuotes
                THEN ShlexRun(s, i + 1, QuoteState(c), esc, token, quoted, toks)
                ELSE ShlexRun(s, i + 1, "a", esc, <<c>>, quoted, toks)
          [] state \in {"dq", "sq"} ->
                IF QuoteState(c) = state /\ c \in ShlexQuotes
                THEN ShlexRun(s, i + 1, "a", esc, token, TRUE, toks)
                ELSE IF c = ShlexEscape /\ state = "dq"
                THEN ShlexRun(s, i + 1, "esc", "dq", token, TRUE, toks)
                ELSE ShlexRun(s, i + 1, state, esc, Append(token, c), TRUE, toks)
          [] state = "esc" ->
                LET keep == /\ esc \in {"dq", "sq"}
                            /\ c # ShlexEscape
                            /\ ~(c \in ShlexQuotes /\ QuoteState(c) = esc)
                    tok1 == IF keep THEN Append(token, ShlexEscape) ELSE token
                IN ShlexRun(s, i + 1, esc, esc, Append(tok1, c), quoted, toks)
          [] OTHER ->
                IF c \in ShlexWhitespace
                THEN ShlexRun(s, i + 1, "ws", "ws", <<>>, FALSE,
                              IF token # <<>> \/ quoted
                              THEN Append(toks, token) ELSE toks)
                ELSE IF c \in ShlexQuotes
                THEN ShlexRun(s, i + 1, QuoteState(c), esc, token, quoted, toks)
                ELSE IF c = ShlexEscape
                THEN ShlexRun(s, i + 1, "esc", "a", token, quoted, toks)
                ELSE ShlexRun(s, i + 1, "a", esc, Append(token, c), quoted, toks)

\* shlex.split: ok = FALSE stands for the ValueError of unbalanced quoting.
shlex_split(s) == ShlexRun(s, 1, "ws", "ws", <<>>, FALSE, <<>>)

\* ------------------------------------------------------------------------
\* CommandRequest.validate_command_security (models.py)
\* ------------------------------------------------------------------------

\* The backquote character (the lexer of TLA+ has no literal for it).
BackTick == "backquote"

separator_patterns == << <<";">>, <<"&", "&">>, <<"|", "|">> >>
dangerous_tokens == << <<">">>, <<">", ">">>, <<"|">> >>
dangerous_operator_substrings == << <<">", ">">>, <<">">>, <<"|">> >>
dangerous_substrings ==
    << <<BackTick>>,
       <<"$", "(">>,
       <<"r", "m", " ", "-", "r", "f", " ", "/">>,
       <<"d", "d", " ", "i", "f", "=">>,
       <<"m", "k", "f", "s">>,
       <<"f", "d", "i", "s", "k">>,
       <<"p", "a", "r", "t", "e", "d">> >>
safe_commands ==
    { <<"l", "s">>, <<"p", "w", "d">>, <<"w", "h", "o", "a", "m", "i">>,
      <<"p", "s">>, <<"d", "f">>, <<"f", "r", "e", "e">>,
      <<"u", "n", "a", "m", "e">>, <<"d", "a", "t", "e">>,
      <<"u", "p", "t", "i", "m", "e">>, <<"c", "a", "t">>,
      <<"g", "r", "e", "p">>, <<"f", "i", "n", "d">>, <<"e", "c", "h", "o">>,
      <<"h", "e", "a", "d">>, <<"t", "a", "i", "l">> }

\* Outcomes of the validator: the returned value, or the ValueError raised.
Accepted(v) == [ok |-> TRUE, error |-> "none", pattern |-> <<>>, value |-> v]
Rejected(kind, pat) == [ok |-> FALSE, error |-> kind, pattern |-> pat, value |-> <<>>]
\* raise_for_pattern
raise_for_pattern(pattern) == Rejected("dangerous", pattern)

\* The first substring of `list` (in list order) that occurs in v; <<>> if none.
FirstSubstring(list, v) ==
    IF \E i \in 1..Len(list) : Contains(v, list[i])
    THEN list[CHOOSE i \in 1..Len(list) :
                 /\ Contains(v, list[i])
                 /\ \A j \in 1..(i - 1) : ~Contains(v, list[j])]
    ELSE <<>>

\* The first token (in token order) that is a dangerous token or a separator.
IsBadToken(t) == InList(t, dangerous_tokens) \/ InList(t, separator_patterns)
FirstBadToken(toks) ==
    IF \E i \in 1..Len(toks) : IsBadToken(toks[i])
    THEN toks[CHOOSE i \in 1..Len(toks) :
                 /\ IsBadToken(toks[i])
                 /\ \A j \in 1..(i - 1) : ~IsBadToken(toks[j])]
    ELSE <<>>

\* The body of validate_command_security.  checkRemainder is TRUE in the
\* code: it stands for the scan of the text after a safe first token for
\* separator patterns.
ValidateWith(v0, checkRemainder) ==
    IF v0 = <<>> \/ Strip(v0) = <<>> THEN Rejected("empty", <<>>)
    ELSE
    LET v == Strip(v0)
        sp == shlex_split(v)
        tokens == sp.tokens
    IN
    IF ~sp.ok THEN Rejected("syntax", <<>>)
    ELSE IF tokens = <<>> THEN Rejected("empty", <<>>)
    ELSE
    LET first_token == tokens[1] IN
    IF FirstSubstring(dangerous_operator_substrings, v) # <<>>
    THEN raise_for_pattern(FirstSubstring(dangerous_operator_substrings, v))
    ELSE IF first_token \in safe_commands
    THEN
        LET remaining_tokens == Tail(tokens)
            remainder == SubSeq(v, Len(first_token) + 1, Len(v))
        IN
        IF FirstBadToken(remaining_tokens) # <<>>
        THEN raise_for_pattern(FirstBadToken(remaining_tokens))
        ELSE IF FirstSubstring(dangerous_substrings, v) # <<>>
        THEN raise_for_pattern(FirstSubstring(dangerous_substrings, v))
        ELSE IF checkRemainder /\ FirstSubstring(separator_patterns, remainder) # <<>>
        THEN raise_for_pattern(FirstSubstring(separator_patterns, remainder))
        ELSE Accepted(v)
    ELSE
        IF FirstBadToken(tokens) # <<>>
        THEN raise_for_pattern(FirstBadToken(tokens))
        ELSE IF FirstSubstring(separator_patterns, v) # <<>>
        THEN raise_for_pattern(FirstSubstring(separator_patterns, v))
        ELSE IF FirstSubstring(dangerous_substrings, v) # <<>>
        THEN raise_for_pattern(FirstSubstring(dangerous_substrings, v))
        ELSE Accepted(v)

\* A validator that trusts the token scan for safe commands.
validate_trusting_tokens(v) == ValidateWith(v, FALSE)

validate_command_security(v) == ValidateWith(v, TRUE)

\* ------------------------------------------------------------------------
\* Command policy of CommandExecutor (executor.py)
\* ------------------------------------------------------------------------

\* CommandExecutor.__init__: the lists read from ALLOWED_COMMANDS and
\* RESTRICTED_PATHS.  An unset or empty variable is the empty text; the
\* code only tests the resulting value for truth, so None is the empty list.
load_list(envvalue) ==
    IF envvalue = <<>> THEN <<>> ELSE SplitOn(envvalue, ",", <<>>, <<>>)

\* _is_command_allowed
is_command_allowed(allowed, command) ==
    IF allowed = <<>> THEN TRUE
    ELSE LET words == SplitWs(command, <<>>, <<>>)
             first_word == IF words # <<>> THEN words[1] ELSE <<>>
         IN InList(first_word, allowed)

\* _check_path_restrictions
check_path_restrictions(restricted, command) ==
    ~ \E i \in 1..Len(restricted) :
          restricted[i] # <<>> /\ Contains(command, restricted[i])

\* ------------------------------------------------------------------------
\* Bounds and inputs
\* ------------------------------------------------------------------------

MaxSessions == 2      \* session ids (uuid4 values) generated in a run
MaxTime == 1          \* readings of the clock
MaxOut == 1           \* output chunks one process produces
MaxCmdLen == 4        \* length of the commands given to the validator
MaxEnvLen == 3        \* length of the configured lists of the policy
MaxWordLen == 3       \* length of the commands given to the policy checks

\* current_session_id = None; also the "" returned in place of an id.
None == 0
SessionIds == 1..MaxSessions

RECURSIVE StringsUpTo(_, _)
StringsUpTo(alphabet, n) ==
    IF n = 0 THEN {<<>>}
    ELSE LET shorter == StringsUpTo(alphabet, n - 1)
         IN shorter \cup {Append(t, c) : t \in shorter, c \in alphabet}

\* Commands started as interactive sessions: sh, sh "x", an unbalanced
\* quote, and a blank.
CmdSh == <<"s", "h">>
CmdShQuoted == <<"s", "h", " ", "\"", "x", "\"">>
CmdBadQuote == <<"\"">>
CmdBlank == <<" ">>
RegistryCommands == {CmdSh, CmdShQuoted, CmdBadQuote, CmdBlank}

\* Values of ALLOWED_COMMANDS and RESTRICTED_PATHS the executor is built with.
RegistryEnvs ==
    { [ALLOWED_COMMANDS |-> <<>>, RESTRICTED_PATHS |-> <<>>],
      [ALLOWED_COMMANDS |-> CmdSh, RESTRICTED_PATHS |-> <<"x">>] }

\* Texts sent to a session.
InputTexts == {<<"x">>}
linesep == "\n"

\* environment=None of a request, and the empty dictionary: the code only
\* tests the value for truth.
NoEnvironment == <<>>

\* timeout of CommandRequest: Optional[int], 30 when omitted, 1..300 or null.
DefaultTimeout == 30
Timeouts == {None, 1, DefaultTimeout}

\* ------------------------------------------------------------------------
\* State
\* ------------------------------------------------------------------------

VARIABLES
    active_sessions,     \* CommandExecutor.active_sessions: id -> session
    current_session_id,  \* CommandExecutor.current_session_id
    allowed_commands,    \* CommandExecutor.allowed_commands
    restricted_paths,    \* CommandExecutor.restricted_paths
    env,                 \* os.environ at construction
    procs,               \* the children spawned through pexpect, by number
    uuid_count,          \* number of uuid4 values drawn
    now,                 \* datetime.now()
    pc,                  \* Idle, or the terminate_session blocked in child.wait()
    ret,                 \* what the call of this step returned (NoRet: no call)
    command_in,          \* the text under validation
    verdict,             \* outcome of the validator or of a policy check
    running              \* timeouts of the simple commands in communicate()

registry == <<active_sessions, current_session_id, procs>>
policy == <<allowed_commands, restricted_paths, env>>
harness == <<command_in, verdict, running>>
vars == <<active_sessions, current_session_id, allowed_commands,
          restricted_paths, env, procs, uuid_count, now, pc, ret,
          command_in, verdict, running>>

\* A child process and its pseudo-terminal.  emitted counts the output
\* chunks the process wrote, delivered those already read by the executor;
\* stubborn: it does not exit on the signals of child.terminate().
NoProc == [state |-> "none", stubborn |-> FALSE, emitted |-> 0, delivered |-> 0]
NewProc(stubborn) == [state |-> "alive", stubborn |-> stubborn, emitted |-> 0,
                      delivered |-> 0]
\* A child that has exited and whose pexpect object has been dropped.
Reaped == [state |-> "dead", stubborn |-> FALSE, emitted |-> 0, delivered |-> 0]

\* The process exits; the output it wrote stays readable on the terminal.
ExitedProc(p) == [p EXCEPT !.state = "dead", !.stubborn = FALSE]

\* A liveness test that takes every child for running.
isalive_always(ps, child) == TRUE

\* child.isalive()
isalive(ps, child) == ps[child].state = "alive"

\* exit_code = None in a CommandResponse.
ExitNone == -1

\* CommandResponse and the other return values; fields not set by a call
\* keep the defaults of the model class.  id is the first component of the
\* pair start_interactive_command returns, value the bool or Optional other
\* calls return.  read and written record what the call's bounded read
\* observed and what it wrote to the child.  execution_time is "zero" for
\* the literal 0.0 and "elapsed" for time.time() - start_time.  spawned,
\* argv, env, process and outcome record the process the call created:
\* whether one was created, its argument vector and environment, whether it
\* is "reaped" at the return or lives on as the "session", and what
\* happened to it; swept are the sessions the call removed before it looked
\* for an active one; status is the status code of an HTTP error response.
NoRet == [op |-> "none", raised |-> FALSE, success |-> FALSE, id |-> None,
          session_id |-> None, is_interactive |-> FALSE, error |-> "none",
          stdout |-> <<>>, command_executed |-> <<>>, value |-> FALSE,
          infos |-> {}, read |-> "none", written |-> <<>>,
          exit_code |-> ExitNone, execution_time |-> "none",
          spawned |-> FALSE, argv |-> <<>>, env |-> <<>>,
          process |-> "none", outcome |-> "none", swept |-> {},
          status |-> 0]

\* The rejection both entry points build when a policy check fails.
policy_rejection(op, error) ==
    [NoRet EXCEPT !.op = op, !.error = error, !.execution_time = "zero"]

\* No call is in progress.
Idle == [at |-> "idle", session_id |-> None]

NoVerdict == [op |-> "none", ok |-> FALSE, error |-> "none",
              pattern |-> <<>>, value |-> <<>>]

InitRegistry ==
    /\ active_sessions = << >>
    /\ current_session_id = None
    /\ procs = [p \in SessionIds |-> NoProc]
    /\ uuid_count = 0
    /\ now = 0
    /\ pc = Idle
    /\ ret = NoRet
    /\ running = <<>>

\* CommandExecutor.__init__
InitPolicy(e) ==
    /\ env = e
    /\ allowed_commands = load_list(e.ALLOWED_COMMANDS)
    /\ restricted_paths = load_list(e.RESTRICTED_PATHS)

Init ==
    /\ InitRegistry
    /\ \E e \in RegistryEnvs : InitPolicy(e)
    /\ command_in = <<>>
    /\ verdict = NoVerdict

\* ------------------------------------------------------------------------
\* Session registry of CommandExecutor (executor.py)
\* ------------------------------------------------------------------------

\* The mutable part of the executor seen by its helpers, as one value.
Reg(sessions, current, ps) == [sessions |-> sessions, current |-> current, procs |-> ps]
RegNow == Reg(active_sessions, current_session_id, procs)
Commit(R) ==
    /\ active_sessions' = R.sessions
    /\ current_session_id' = R.current
    /\ procs' = R.procs

\* del d[key]
Drop(d, key) == [k \in DOMAIN d \ {key} |-> d[k]]

\* A cleanup that ends the child but keeps the entry.
cleanup_session_keeps_entry(R, session_id) ==
    IF session_id \in DOMAIN R.sessions
    THEN [R EXCEPT !.procs[R.sessions[session_id].child] = Reaped]
    ELSE R

\* A cleanup that drops the entry and leaves current_session_id as it is.
cleanup_session_keeps_current(R, session_id) ==
    IF session_id \in DOMAIN R.sessions
    THEN Reg(Drop(R.sessions, session_id),
             R.current,
             [R.procs EXCEPT ![R.sessions[session_id].child] = Reaped])
    ELSE R

\* A cleanup that drops the entry and leaves the child as it is.
cleanup_session_leaks(R, session_id) ==
    IF session_id \in DOMAIN R.sessions
    THEN Reg(Drop(R.sessions, session_id),
             IF R.current = session_id THEN None ELSE R.current,
             R.procs)
    ELSE R

\* _cleanup_session: child.terminate() and child.wait() when the child is
\* alive, then the entry is deleted.  (A stubborn child is handled where
\* terminate_session blocks in wait().)
cleanup_session(R, session_id) ==
    IF session_id \in DOMAIN R.sessions
    THEN Reg(Drop(R.sessions, session_id),
             IF R.current = session_id THEN None ELSE R.current,
             [R.procs EXCEPT ![R.sessions[session_id].child] = Reaped])
    ELSE R

\* _cleanup_session for each of the ids, one after the other.
RECURSIVE cleanup_each(_, _)
cleanup_each(R, ids) ==
    IF ids = {} THEN R
    ELSE LET sid == CHOOSE k \in ids : TRUE
         IN cleanup_each(cleanup_session(R, sid), ids \ {sid})

\* A sweep that removes nothing.
cleanup_inactive_skipped(R) == R

\* A sweep that removes every session, running or not.
cleanup_inactive_everything(R) ==
    [cleanup_each(R, DOMAIN R.sessions) EXCEPT !.current = None]

\* cleanup_inactive_sessions, as a function of the registry
cleanup_inactive(R) ==
    LET inactive_sessions ==
            {k \in DOMAIN R.sessions : ~isalive(R.procs, R.sessions[k].child)}
        R1 == cleanup_each(R, inactive_sessions)
    IN IF DOMAIN R1.sessions = {} THEN [R1 EXCEPT !.current = None] ELSE R1

\* A check that finds no session active, whatever the registry holds.
has_active_session_blind(R) == [result |-> FALSE, reg |-> R]

\* _has_active_session: the answer and the registry it leaves
has_active_session(R) ==
    IF R.current = None THEN [result |-> FALSE, reg |-> R]
    ELSE IF R.current \notin DOMAIN R.sessions
    THEN [result |-> FALSE, reg |-> [R EXCEPT !.current = None]]
    ELSE IF ~isalive(R.procs, R.sessions[R.current].child)
    THEN [result |-> FALSE, reg |-> cleanup_session(R, R.current)]
    ELSE [result |-> TRUE, reg |-> R]

\* Chunks first..last of a process's output.
Chunks(first, last) == [i \in 1..(last - first + 1) |-> first + i - 1]

\* A read that never sees output.
ReadOutcomes_silent(p) == {[kind |-> "timeout", data |-> <<>>, proc |-> p]}

\* child.read_nonblocking(size, timeout): the outcomes of one bounded read of
\* process p.  Output that is pending is returned at once (all of it or a
\* first part); otherwise the process may, within the window, write a chunk,
\* exit, both or neither: data, EOF or TIMEOUT.
ReadOutcomes(p) ==
    LET pending == p.emitted - p.delivered
        DataOf(q) ==
            {[kind |-> "data",
              data |-> Chunks(q.delivered + 1, q.delivered + n),
              proc |-> [q EXCEPT !.delivered = q.delivered + n]] :
                 n \in 1..(q.emitted - q.delivered)}
    IN
    IF pending > 0 THEN DataOf(p)
    ELSE IF p.state # "alive" THEN {[kind |-> "eof", data |-> <<>>, proc |-> p]}
    ELSE LET exited == ExitedProc(p)
             wrote == [p EXCEPT !.emitted = p.emitted + 1]
             both == ExitedProc(wrote)
         IN {[kind |-> "timeout", data |-> <<>>, proc |-> p],
             [kind |-> "eof", data |-> <<>>, proc |-> exited]}
            \cup (IF p.emitted < MaxOut THEN DataOf(wrote) \cup DataOf(both) ELSE {})

\* An id generator that hands out the same id again.
recycled_session_id(drawn) == 1

\* session_id = str(uuid.uuid4()): a value never drawn before.
new_session_id(drawn) == drawn + 1

\* The entry start_interactive_command records for a new session.
register_session(session_id, command, ps) ==
    Reg(session_id :> [child |-> session_id,
                       command |-> command,
                       created_at |-> now,
                       last_activity |-> now],
        session_id,
        ps)

\* A parser that cuts the command at whitespace only.
command_parts_by_words(command) ==
    [ok |-> TRUE, tokens |-> SplitWs(command, <<>>, <<>>)]

\* command_parts = shlex.split(command)
command_parts(command) == shlex_split(command)

\* error_message of the refusal while a session is active: "An interactive
\* session is already active. Terminate the current session before starting
\* a new one."
already_active_message ==
    <<"A", "n", " ", "i", "n", "t", "e", "r", "a", "c", "t", "i", "v", "e",
      " ", "s", "e", "s", "s", "i", "o", "n", " ", "i", "s", " ", "a", "l",
      "r", "e", "a", "d", "y", " ", "a", "c", "t", "i", "v", "e", ".", " ",
      "T", "e", "r", "m", "i", "n", "a", "t", "e", " ", "t", "h", "e", " ",
      "c", "u", "r", "r", "e", "n", "t", " ", "s", "e", "s", "s", "i", "o",
      "n", " ", "b", "e", "f", "o", "r", "e", " ", "s", "t", "a", "r", "t",
      "i", "n", "g", " ", "a", " ", "n", "e", "w", " ", "o", "n", "e", ".">>

\* A refusal that reports the command it was asked to start.
requested_command(R, command) == command

\* command_executed=active_session.get("command") of the refusal, for the
\* registry and the command of the request.
active_session_command(R, command) == R.sessions[R.current].command

\* An environment in which the values of the parent win.
spawn_env_parent_first(parent, environment) ==
    IF environment = NoEnvironment THEN parent ELSE parent @@ environment

\* env = os.environ.copy(); if environment: env.update(environment).  An
\* environment is a function from variable names to values.
spawn_env(parent, environment) ==
    IF environment = NoEnvironment THEN parent ELSE environment @@ parent

\* The body of start_interactive_command, from its entry to its return.
\* single is TRUE in the code: it stands for the refusal while a session is
\* active and for the replacement of the whole dictionary by the new entry.
StartWith(command, environment, single) ==
    /\ UNCHANGED <<policy, harness, now>>
    /\ IF ~is_command_allowed(allowed_commands, command)
       THEN \* the message is built from command.split()[0]
            /\ ret' = IF SplitWs(command, <<>>, <<>>) = <<>>
                      THEN [NoRet EXCEPT !.op = "start", !.raised = TRUE]
                      ELSE policy_rejection("start", "not_allowed")
            /\ UNCHANGED <<registry, uuid_count>>
       ELSE IF ~check_path_restrictions(restricted_paths, command)
       THEN /\ ret' = policy_rejection("start", "restricted")
            /\ UNCHANGED <<registry, uuid_count>>
       ELSE
       LET H == has_active_session(cleanup_inactive(RegNow))
           R == H.reg
           swept == DOMAIN active_sessions \ DOMAIN R.sessions
       IN
       IF single /\ H.result
       THEN /\ ret' = [NoRet EXCEPT !.op = "start",
                                    !.session_id = R.current,
                                    !.is_interactive = TRUE,
                                    !.error = "already_active",
                                    !.execution_time = "zero",
                                    !.swept = swept,
                                    !.command_executed = active_session_command(R, command)]
            /\ Commit(R)
            /\ UNCHANGED uuid_count
       ELSE
       /\ uuid_count < MaxSessions
       /\ uuid_count' = uuid_count + 1
       /\ LET session_id == new_session_id(uuid_count)
              parts == command_parts(command)
          IN
          IF ~parts.ok
          THEN /\ ret' = [NoRet EXCEPT !.op = "start", !.error = "parse",
                                       !.execution_time = "elapsed",
                                       !.swept = swept]
               /\ Commit(R)
          ELSE IF parts.tokens = <<>>
          THEN /\ ret' = [NoRet EXCEPT !.op = "start", !.error = "empty",
                                       !.execution_time = "elapsed",
                                       !.swept = swept]
               /\ Commit(R)
          ELSE
          \/ \* pexpect.spawn raises: no such executable, no pty
             /\ ret' = [NoRet EXCEPT !.op = "start", !.error = "spawn",
                                     !.execution_time = "elapsed",
                                     !.swept = swept]
             /\ Commit(R)
          \/ \* the child is spawned and recorded, and a statement after
             \* that raises something other than TIMEOUT or EOF (the read,
             \* the construction of the response): except Exception
             \E stubborn \in BOOLEAN :
             /\ LET N == register_session(session_id, command,
                                          [R.procs EXCEPT ![session_id] = NewProc(stubborn)])
                IN Commit(IF single THEN N
                          ELSE [N EXCEPT !.sessions = N.sessions @@ R.sessions])
             /\ ret' = [NoRet EXCEPT !.op = "start", !.error = "after_spawn",
                                     !.execution_time = "elapsed",
                                     !.spawned = TRUE,
                                     !.process = "session",
                                     !.swept = swept,
                                     !.argv = parts.tokens,
                                     !.env = spawn_env(env, environment)]
          \/ \E stubborn \in BOOLEAN : \E rd \in ReadOutcomes(NewProc(stubborn)) :
             /\ LET N == register_session(session_id, command,
                                          [R.procs EXCEPT ![session_id] = rd.proc])
                IN Commit(IF single THEN N
                          ELSE [N EXCEPT !.sessions = N.sessions @@ R.sessions])
             /\ ret' = [NoRet EXCEPT !.op = "start",
                                     !.success = TRUE,
                                     !.id = session_id,
                                     !.session_id = session_id,
                                     !.is_interactive = TRUE,
                                     !.stdout = rd.data,
                                     !.read = rd.kind,
                                     !.execution_time = "elapsed",
                                     !.spawned = TRUE,
                                     !.process = "session",
                                     !.swept = swept,
                                     !.argv = parts.tokens,
                                     !.env = spawn_env(env, environment)]

\* A start that keeps every session it is asked for.
start_without_limit(command, environment) ==
    /\ pc = Idle
    /\ UNCHANGED pc
    /\ StartWith(command, environment, FALSE)

\* start_interactive_command(command, working_directory, environment),
\* called with no other call in progress.
start_interactive_command(command, environment) ==
    /\ pc = Idle
    /\ UNCHANGED pc
    /\ StartWith(command, environment, TRUE)

\* The clock advances.
Tick ==
    /\ now < MaxTime
    /\ now' = now + 1
    /\ ret' = NoRet
    /\ UNCHANGED <<registry, policy, harness, uuid_count, pc>>

\* An exit that takes the session out of the registry at once, as a
\* child-exit handler would.
ProcExitUnregisters ==
    \E p \in SessionIds :
        /\ procs[p].state = "alive"
        /\ Commit(cleanup_session(
                     Reg(active_sessions, current_session_id,
                         [procs EXCEPT ![p] = ExitedProc(procs[p])]), p))
        /\ ret' = NoRet
        /\ UNCHANGED <<policy, harness, uuid_count, now, pc>>

\* A session's process exits on its own.
ProcExit ==
    \E p \in SessionIds :
        /\ procs[p].state = "alive"
        /\ procs' = [procs EXCEPT ![p] = ExitedProc(procs[p])]
        /\ ret' = NoRet
        /\ UNCHANGED <<active_sessions, current_session_id, policy, harness,
                       uuid_count, now, pc>>

\* A session's process writes a chunk of output to its terminal.
ProcOutput ==
    \E p \in SessionIds :
        /\ procs[p].state = "alive"
        /\ procs[p].emitted < MaxOut
        /\ procs' = [procs EXCEPT ![p].emitted = @ + 1]
        /\ ret' = NoRet
        /\ UNCHANGED <<active_sessions, current_session_id, policy, harness,
                       uuid_count, now, pc>>

\* A guard that only asks whether a session is current.
session_found_any(sessions, current, session_id) == current # None

\* The guard of send_interactive_input: the id is the current one and is
\* registered.
session_found(sessions, current, session_id) ==
    ~(session_id # current \/ session_id \notin DOMAIN sessions)

\* A test that takes a read without output for the end of the session.
session_ended_on_silence(kind) == kind \in {"eof", "timeout"}

\* isinstance(e, pexpect.EOF): the bounded read saw the end of the stream.
session_ended(kind) == kind = "eof"

\* The body of send_interactive_input, from its entry to its return.
SendWith(session_id, input_text, send_newline) ==
    /\ UNCHANGED <<policy, harness, now, uuid_count>>
    /\ IF ~session_found(active_sessions, current_session_id, session_id)
       THEN /\ ret' = [NoRet EXCEPT !.op = "send", !.error = "not_found",
                                    !.execution_time = "zero"]
            /\ UNCHANGED registry
       ELSE IF session_id \notin DOMAIN active_sessions
       THEN \* self.active_sessions[session_id] raises KeyError
            /\ ret' = [NoRet EXCEPT !.op = "send", !.raised = TRUE]
            /\ UNCHANGED registry
       ELSE
       LET child == active_sessions[session_id].child
           p == procs[child]
           \* child.sendline(text) / child.send(text)
           data == IF send_newline THEN Append(input_text, linesep) ELSE input_text
       IN
       \/ \* the write raises: the terminal of an exited process is closed
          /\ p.state # "alive"
          /\ ret' = [NoRet EXCEPT !.op = "send", !.error = "io",
                                  !.execution_time = "elapsed",
                                  !.session_id = session_id]
          /\ UNCHANGED registry
       \/ \E rd \in ReadOutcomes(p) :
                LET R == Reg([active_sessions EXCEPT ![session_id].last_activity = now],
                             current_session_id,
                             [procs EXCEPT ![child] = rd.proc])
                IN
                IF session_ended(rd.kind)
                THEN /\ Commit(cleanup_session(R, session_id))
                     /\ ret' = [NoRet EXCEPT !.op = "send", !.success = TRUE,
                                             !.session_id = session_id,
                                             !.is_interactive = FALSE,
                                             !.read = rd.kind,
                                             !.execution_time = "elapsed",
                                             !.written = data]
                ELSE /\ Commit(R)
                     /\ ret' = [NoRet EXCEPT !.op = "send", !.success = TRUE,
                                             !.stdout = rd.data,
                                             !.session_id = session_id,
                                             !.is_interactive = TRUE,
                                             !.read = rd.kind,
                                             !.execution_time = "elapsed",
                                             !.written = data]

\* send_interactive_input(session_id, input_text, send_newline), called
\* with no other call in progress.
send_interactive_input(session_id, input_text, send_newline) ==
    /\ pc = Idle
    /\ UNCHANGED pc
    /\ SendWith(session_id, input_text, send_newline)

\* SessionInfo of an entry; between the sweep and the isalive() of the
\* status field the process may exit (dies).
SessionInfo(R, session_id, dies) ==
    [session_id |-> session_id,
     command |-> R.sessions[session_id].command,
     status |-> IF dies THEN "terminated" ELSE "active",
     created_at |-> R.sessions[session_id].created_at,
     last_activity |-> R.sessions[session_id].last_activity]

\* The children of D exit.
Exited(ps, D) == [p \in DOMAIN ps |-> IF p \in D THEN ExitedProc(ps[p]) ELSE ps[p]]

\* get_session_info(session_id)
get_session_info(session_id) ==
    /\ pc = Idle
    /\ UNCHANGED <<policy, harness, now, pc, uuid_count>>
    /\ LET R == cleanup_inactive(RegNow) IN
       IF session_id \notin DOMAIN R.sessions
       THEN /\ ret' = [NoRet EXCEPT !.op = "info"]
            /\ Commit(R)
       ELSE \E dies \in BOOLEAN :
            /\ ret' = [NoRet EXCEPT !.op = "info", !.value = TRUE,
                                    !.infos = {SessionInfo(R, session_id, dies)}]
            /\ Commit([R EXCEPT !.procs =
                          Exited(R.procs, IF dies THEN {R.sessions[session_id].child} ELSE {})])

\* list_active_sessions()
list_active_sessions ==
    /\ pc = Idle
    /\ UNCHANGED <<policy, harness, now, pc, uuid_count>>
    /\ LET R == cleanup_inactive(RegNow) IN
       \E D \in SUBSET (DOMAIN R.sessions) :
            /\ ret' = [NoRet EXCEPT !.op = "list", !.value = TRUE,
                                    !.infos = {SessionInfo(R, k, k \in D) : k \in DOMAIN R.sessions}]
            /\ Commit([R EXCEPT !.procs = Exited(R.procs, {R.sessions[k].child : k \in D})])

\* terminate_session(session_id).  child.terminate() signals the child and
\* child.wait() waits for its exit: with a stubborn child the call stays in
\* wait() (pc names the session) until the child exits.
terminate_session(session_id) ==
    /\ pc = Idle
    /\ UNCHANGED <<policy, harness, now, uuid_count>>
    /\ IF session_id \notin DOMAIN active_sessions
       THEN /\ ret' = [NoRet EXCEPT !.op = "terminate", !.value = FALSE]
            /\ UNCHANGED <<registry, pc>>
       ELSE LET p == procs[active_sessions[session_id].child] IN
            IF p.state = "alive" /\ p.stubborn
            THEN /\ pc' = [at |-> "wait", session_id |-> session_id]
                 /\ ret' = [NoRet EXCEPT !.op = "terminate_wait"]
                 /\ UNCHANGED registry
            ELSE /\ Commit(cleanup_session(RegNow, session_id))
                 /\ ret' = [NoRet EXCEPT !.op = "terminate", !.value = TRUE]
                 /\ UNCHANGED pc

\* child.wait() returns in terminate_session: the rest of _cleanup_session.
TerminateReturns ==
    /\ pc # Idle
    /\ ~isalive(procs, active_sessions[pc.session_id].child)
    /\ Commit(cleanup_session(RegNow, pc.session_id))
    /\ ret' = [NoRet EXCEPT !.op = "terminate", !.value = TRUE]
    /\ pc' = Idle
    /\ UNCHANGED <<policy, harness, now, uuid_count>>

\* cleanup_inactive_sessions()
cleanup_inactive_sessions ==
    /\ pc = Idle
    /\ Commit(cleanup_inactive(RegNow))
    /\ ret' = [NoRet EXCEPT !.op = "cleanup"]
    /\ UNCHANGED <<policy, harness, now, pc, uuid_count>>

\* ------------------------------------------------------------------------
\* Simple commands (executor.py, execute_simple_command)
\* ------------------------------------------------------------------------

\* Exit codes of a command the shell found and ran.
ExitCodes == {0, 1}
\* Exit code of the shell when it does not find the command's executable.
ShellNotFound == 127

\* What can happen once the policy checks have passed.  "oserror": the
\* subprocess cannot be created (no such working directory, no process
\* to fork); "exited": communicate() returns before the timeout; "missing":
\* the shell does not find the executable and exits with ShellNotFound;
\* "deadline": the timeout passes with the process running; "late_exit": the
\* timeout passes, and the process exits while wait_for cancels
\* communicate(), before process.kill() is called; "never": the process
\* does not exit and wait_for has timeout=None, no deadline.  A blank
\* command makes the shell exit at once with 0.
SimpleOutcomes(command, timeout) ==
    LET blank == SplitWs(command, <<>>, <<>>) = <<>> IN
    {[kind |-> "oserror", exit_code |-> ExitNone]}
    \cup {[kind |-> "exited", exit_code |-> c] :
             c \in IF blank THEN {0} ELSE ExitCodes}
    \cup (IF blank THEN {}
          ELSE {[kind |-> "missing", exit_code |-> ShellNotFound]}
               \cup (IF timeout = None
                     THEN {[kind |-> "never", exit_code |-> ExitNone]}
                     ELSE {[kind |-> "deadline", exit_code |-> ExitNone],
                           [kind |-> "late_exit", exit_code |-> ExitNone]}))

\* A result that reports success whatever the exit code.
success_always(exit_code) == TRUE

\* success=exit_code == 0
success_of(exit_code) == exit_code = 0

\* The CommandResponse of execute_simple_command for an outcome.
simple_result(o) ==
    CASE o.kind = "oserror" ->
            \* create_subprocess_shell raises: except Exception
            [NoRet EXCEPT !.op = "exec", !.error = "execution",
                          !.execution_time = "elapsed", !.outcome = o.kind]
      [] o.kind \in {"exited", "missing"} ->
            \* communicate() has waited for the process
            [NoRet EXCEPT !.op = "exec", !.success = success_of(o.exit_code),
                          !.exit_code = o.exit_code,
                          !.execution_time = "elapsed", !.spawned = TRUE,
                          !.process = "reaped", !.outcome = o.kind]
      [] o.kind = "deadline" ->
            \* asyncio.TimeoutError: process.kill(), await process.wait()
            [NoRet EXCEPT !.op = "exec", !.error = "timeout",
                          !.execution_time = "elapsed", !.spawned = TRUE,
                          !.process = "reaped", !.outcome = o.kind]
      [] OTHER ->
            \* asyncio.TimeoutError, then process.kill() raises
            \* ProcessLookupError for the finished transport: except Exception
            [NoRet EXCEPT !.op = "exec", !.error = "execution",
                          !.execution_time = "elapsed", !.spawned = TRUE,
                          !.process = "reaped", !.outcome = o.kind]

\* The body of execute_simple_command; checked is TRUE in the code: the
\* security checks come first.  With outcome "never" the coroutine stays
\* suspended in communicate(): the call has no result ("exec_wait").
ExecuteWith(command, timeout, environment, checked) ==
    /\ pc = Idle
    /\ UNCHANGED <<registry, policy, harness, now, pc, uuid_count>>
    /\ IF checked /\ ~is_command_allowed(allowed_commands, command)
       THEN \* the message is built from command.split()[0]
            ret' = IF SplitWs(command, <<>>, <<>>) = <<>>
                   THEN [NoRet EXCEPT !.op = "exec", !.raised = TRUE]
                   ELSE policy_rejection("exec", "not_allowed")
       ELSE IF checked /\ ~check_path_restrictions(restricted_paths, command)
       THEN ret' = policy_rejection("exec", "restricted")
       ELSE \E o \in SimpleOutcomes(command, timeout) :
            ret' = IF o.kind = "never"
                   THEN [NoRet EXCEPT !.op = "exec_wait", !.spawned = TRUE,
                                      !.outcome = o.kind,
                                      !.env = spawn_env(env, environment)]
                   ELSE [simple_result(o) EXCEPT
                            !.env = IF simple_result(o).spawned
                                    THEN spawn_env(env, environment)
                                    ELSE <<>>]

\* An execution that skips the security checks.
execute_unchecked(command, timeout, environment) ==
    ExecuteWith(command, timeout, environment, FALSE)

\* execute_simple_command(command, working_directory, timeout, environment)
execute_simple_command(command, timeout, environment) ==
    ExecuteWith(command, timeout, environment, TRUE)

\* POST /interactive/{session_id} (main.py): the handler passes the
\* session id and the text of the request to the executor.
http_send_interactive_input(session_id, input_text, send_newline) ==
    send_interactive_input(session_id, input_text, TRUE)

StartInteractive ==
    \E command \in RegistryCommands : start_interactive_command(command, NoEnvironment)

SendInput ==
    \E session_id \in SessionIds, input_text \in InputTexts, send_newline \in BOOLEAN :
        send_interactive_input(session_id, input_text, send_newline)
HttpSendInput ==
    \E session_id \in SessionIds, input_text \in InputTexts, send_newline \in BOOLEAN :
        http_send_interactive_input(session_id, input_text, send_newline)
GetSessionInfo == \E session_id \in SessionIds : get_session_info(session_id)
ListActiveSessions == list_active_sessions
TerminateSession == \E session_id \in SessionIds : terminate_session(session_id)
CleanupInactiveSessions == cleanup_inactive_sessions

Next ==
    \/ StartInteractive
    \/ SendInput
    \/ HttpSendInput
    \/ GetSessionInfo
    \/ ListActiveSessions
    \/ TerminateSession
    \/ TerminateReturns
    \/ CleanupInactiveSessions
    \/ Tick
    \/ ProcExit
    \/ ProcOutput

Spec == Init /\ [][Next]_vars

\* ------------------------------------------------------------------------
\* The validator and the policy checks applied to bounded inputs
\* ------------------------------------------------------------------------

\* Examples of the tests and of the documentation.
CmdLsRmRoot == <<"l", "s", ";", " ", "r", "m", " ", "-", "r", "f", " ", "/">>
CmdLsEchoHacked == <<"l", "s", ";", " ", "e", "c", "h", "o", " ", "h", "a", "c", "k", "e", "d">>
CmdLsHome == <<"l", "s", " ", "-", "l", "a", " ", "/", "h", "o", "m", "e">>
CmdEchoQuotedSemi == <<"e", "c", "h", "o", " ", "\"", "a", ";", "b", "\"">>
CmdQuotedAmps == <<"\"", "&", "\"", "&", " ", ";">>
CmdLsQuotedAmps == <<"l", "s", " ", "\"", "&", "\"", "\"", "&", "\"", " ", ";">>
CmdLsGlued == <<"l", "s", " ", ";", "s">>
CmdPwd == <<"p", "w", "d">>
CmdCatPasswd == <<"c", "a", "t", " ", "/", "e", "t", "c", "/", "p", "a", "s", "s", "w", "d">>
CmdQuotedLs == <<"\"", "l", "s", "\"", " ", "-", "l", "a">>
EnvLs == <<"l", "s">>
EnvLsPwd == <<"l", "s", ",", " ", "p", "w", "d">>
EnvEtcBlank == <<"/", "e", "t", "c", " ">>

\* Commands given to validate_command_security.
ValidatorAlphabet == {"l", "s", " ", ";", "&", "|", "\""}
ValidatorCommands ==
    StringsUpTo(ValidatorAlphabet, MaxCmdLen)
        \cup {CmdLsRmRoot, CmdLsEchoHacked, CmdLsHome, CmdEchoQuotedSemi,
              CmdQuotedAmps, CmdLsQuotedAmps, CmdLsGlued}

\* Values of ALLOWED_COMMANDS / RESTRICTED_PATHS and commands given to the
\* policy checks.
EnvValues == StringsUpTo({"a", ",", " "}, MaxEnvLen) \cup {EnvLs, EnvLsPwd, EnvEtcBlank}
PolicyCommands ==
    StringsUpTo({"a", " ", "\""}, MaxWordLen) \cup {CmdPwd, CmdCatPasswd, CmdQuotedLs}

InitValidator ==
    /\ InitRegistry
    /\ InitPolicy([ALLOWED_COMMANDS |-> <<>>, RESTRICTED_PATHS |-> <<>>])
    /\ command_in \in ValidatorCommands
    /\ verdict = NoVerdict

\* CommandRequest(command=command_in): the field validator runs.
ValidateCommand ==
    /\ verdict.op = "none"
    /\ LET r == validate_command_security(command_in)
       IN verdict' = [op |-> "validate", ok |-> r.ok, error |-> r.error,
                      pattern |-> r.pattern, value |-> r.value]
    /\ UNCHANGED <<registry, policy, uuid_count, now, pc, ret, command_in, running>>

\* The result is discarded.
ForgetVerdict ==
    /\ verdict.op # "none"
    /\ verdict' = NoVerdict
    /\ UNCHANGED <<registry, policy, uuid_count, now, pc, ret, command_in, running>>

NextValidator == ValidateCommand \/ ForgetVerdict

SpecValidator == InitValidator /\ [][NextValidator]_vars

\* An executor built with one of its two lists configured.
InitPolicyChecks ==
    /\ InitRegistry
    /\ \E a \in EnvValues, r \in EnvValues :
          /\ a = <<>> \/ r = <<>>
          /\ InitPolicy([ALLOWED_COMMANDS |-> a, RESTRICTED_PATHS |-> r])
    /\ command_in \in PolicyCommands
    /\ verdict = NoVerdict

\* executor._is_command_allowed(command_in)
CheckAllowed ==
    /\ verdict.op = "none"
    /\ verdict' = [NoVerdict EXCEPT !.op = "allowed",
                                    !.ok = is_command_allowed(allowed_commands, command_in)]
    /\ UNCHANGED <<registry, policy, uuid_count, now, pc, ret, command_in, running>>

\* executor._check_path_restrictions(command_in)
CheckPaths ==
    /\ verdict.op = "none"
    /\ verdict' = [NoVerdict EXCEPT !.op = "paths",
                                    !.ok = check_path_restrictions(restricted_paths, command_in)]
    /\ UNCHANGED <<registry, policy, uuid_count, now, pc, ret, command_in, running>>

NextPolicy == CheckAllowed \/ CheckPaths \/ ForgetVerdict

SpecPolicy == InitPolicyChecks /\ [][NextPolicy]_vars

\* Simple commands neither read nor write the session registry: they are
\* run on their own, on an executor built with one of its two lists
\* configured.
\* POST /execute with command_type simple: execute_simple_command(command_in)
ExecuteSimple ==
    /\ ret.op = "none"
    /\ \E timeout \in Timeouts : execute_simple_command(command_in, timeout, NoEnvironment)

\* The response has been sent.
ForgetResult ==
    /\ ret.op \notin {"none", "exec_wait"}
    /\ ret' = NoRet
    /\ UNCHANGED <<registry, policy, harness, uuid_count, now, pc>>

NextSimple == ExecuteSimple \/ ForgetResult

SpecSimple == InitPolicyChecks /\ [][NextSimple]_vars

\* ------------------------------------------------------------------------
\* Properties of the session registry
\* ------------------------------------------------------------------------

Registered == DOMAIN active_sessions
\* The ids drawn so far.
Issued == 1..uuid_count
\* The registered session's process is alive.
SessionAlive ==
    /\ current_session_id \in Registered
    /\ isalive(procs, active_sessions[current_session_id].child)
\* The command passes the allow-list and the restricted-path checks.
PassesPolicy(command) ==
    /\ is_command_allowed(allowed_commands, command)
    /\ check_path_restrictions(restricted_paths, command)

\* The steps of the operations, recognised first by the operation recorded
\* in the result they leave and then by the operation's own definition.
StartStep(command) ==
    ret'.op = "start" /\ start_interactive_command(command, NoEnvironment)
SendStep(session_id, input_text, send_newline) ==
    /\ ret'.op = "send"
    /\ send_interactive_input(session_id, input_text, send_newline)
HttpSendStep(session_id, input_text, send_newline) ==
    /\ ret'.op = "send"
    /\ http_send_interactive_input(session_id, input_text, send_newline)
TerminateStep(session_id) ==
    /\ ret'.op \in {"terminate", "terminate_wait"}
    /\ terminate_session(session_id)
TerminateReturnStep == ret'.op = "terminate" /\ TerminateReturns
InfoStep(session_id) == ret'.op = "info" /\ get_session_info(session_id)
ListStep == ret'.op = "list" /\ list_active_sessions

\* C1: in every reachable state the registry holds at most one session
\* entry.
C1_AtMostOneSession == Cardinality(Registered) <= 1

\* A second session is registered after the first one was removed.
C1_Witness ==
    /\ Cardinality(Registered) = 1
    /\ ret.op = "start" /\ ret.success
    /\ \E k \in Issued \ Registered : procs[k].state = "dead"

\* C2 as claimed: any start_interactive_command called while the registered
\* session's process is alive returns success=false with the existing
\* session's id and changes nothing.
C2_Original ==
    [][\A command \in RegistryCommands :
          (SessionAlive /\ StartStep(command))
             => /\ ~ret'.raised
                /\ ~ret'.success
                /\ ret'.session_id = current_session_id
                /\ UNCHANGED <<registry, uuid_count>>]_vars

\* C2 (amended): a start_interactive_command called while the registered
\* session's process is alive spawns no process, draws no id and leaves the
\* registry unchanged; when the command passes the policy checks the result
\* has success=false and the id of the existing session.  A session appears
\* in the registry only in the step of a start call that spawned its
\* process with no live session registered (a call that returns success
\* returns that id), so a refused request never creates a session later.
C2_RejectedWhileActive ==
    [][/\ \A command \in RegistryCommands :
            (SessionAlive /\ StartStep(command))
               => /\ UNCHANGED <<registry, uuid_count>>
                  /\ PassesPolicy(command)
                        => /\ ~ret'.raised
                           /\ ~ret'.success
                           /\ ret'.error = "already_active"
                           /\ ret'.session_id = current_session_id
       /\ \A k \in DOMAIN active_sessions' \ DOMAIN active_sessions :
            /\ ret'.op = "start"
            /\ ret'.spawned
            /\ ret'.success => ret'.session_id = k
            /\ ~SessionAlive]_vars

\* A start was refused because the session is alive.
C2_Witness ==
    /\ ret.op = "start"
    /\ ret.error = "already_active"
    /\ SessionAlive
    /\ ret.session_id = current_session_id

\* C3: terminate_session on an unregistered id returns false and changes
\* nothing; on a registered id, alive or not, it returns true with the
\* session absent from the registry; an id once absent never comes back, so
\* a repeated terminate_session returns false.
C3_Terminate ==
    [][/\ \A sid \in SessionIds :
            TerminateStep(sid)
               => IF sid \in Registered
                  THEN \/ pc' # Idle
                       \/ /\ ret'.op = "terminate"
                          /\ ret'.value = TRUE
                          /\ sid \notin DOMAIN active_sessions'
                  ELSE /\ ret'.op = "terminate"
                       /\ ret'.value = FALSE
                       /\ UNCHANGED <<registry, uuid_count, pc>>
       /\ TerminateReturnStep
            => /\ ret'.value = TRUE
               /\ pc.session_id \notin DOMAIN active_sessions'
       /\ \A sid \in Issued :
            sid \notin Registered => sid \notin DOMAIN active_sessions']_vars

\* terminate_session returned true and the registry is empty.
C3_Witness ==
    /\ ret.op = "terminate"
    /\ ret.value = TRUE
    /\ uuid_count >= 1
    /\ Registered = {}

\* C4: when the bounded read of send_interactive_input observes
\* end-of-stream, the session is out of the registry when the call returns
\* and the result has is_interactive=false; list_active_sessions returns
\* only sessions that are registered, and an id once absent never comes
\* back, so the next listing does not contain the session.
C4_EndOfStream ==
    [][/\ \A sid \in SessionIds, text \in InputTexts, nl \in BOOLEAN :
            (ret'.read = "eof" /\ SendStep(sid, text, nl))
               => /\ sid \in Registered
                  /\ sid \notin DOMAIN active_sessions'
                  /\ ret'.success
                  /\ ~ret'.is_interactive
       /\ ListStep
            => {i.session_id : i \in ret'.infos} \subseteq
                   (Registered \cap DOMAIN active_sessions')
       /\ \A sid \in Issued :
            sid \notin Registered => sid \notin DOMAIN active_sessions']_vars

\* A send observed end-of-stream and the session is gone.
C4_Witness ==
    /\ ret.op = "send"
    /\ ret.read = "eof"
    /\ ret.session_id \notin Registered
    /\ ~ret.is_interactive

\* C5: a request through /interactive/{session_id} with send_newline=false
\* writes exactly the bytes of input_text, with send_newline=true the text
\* followed by one line terminator.
C5_NewlineOnRequest ==
    [][\A sid \in SessionIds, text \in InputTexts, nl \in BOOLEAN :
          (ret'.success /\ HttpSendStep(sid, text, nl))
             => ret'.written = IF nl THEN Append(text, linesep) ELSE text]_vars

\* The command tokenizes to an executable and its arguments.
Parses(command) == shlex_split(command).ok /\ shlex_split(command).tokens # <<>>

\* C6: with no live session registered, a start_interactive_command with a
\* valid command (it passes the policy, tokenizes, and neither the spawn nor
\* a statement after it raises) succeeds, and the id it returns was never
\* issued before;
\* send_interactive_input, terminate_session and get_session_info called
\* with an id other than the current session's find no session and leave
\* the registry alone.
C6_FreshSession ==
    [][/\ \A command \in RegistryCommands :
            (~SessionAlive /\ PassesPolicy(command) /\ Parses(command)
               /\ StartStep(command))
               => /\ ret'.success \/ ret'.error \in {"spawn", "after_spawn"}
                  /\ ret'.success
                        => /\ ret'.id \notin Issued
                           /\ ret'.id = ret'.session_id
                           /\ DOMAIN active_sessions' = {ret'.id}
                           /\ current_session_id' = ret'.id
       /\ \A sid \in SessionIds \ {current_session_id} :
            /\ \A text \in InputTexts, nl \in BOOLEAN :
                  SendStep(sid, text, nl)
                     => ret'.error = "not_found" /\ UNCHANGED registry
            /\ TerminateStep(sid)
                  => ret'.value = FALSE /\ UNCHANGED registry
            /\ InfoStep(sid) => ret'.infos = {}]_vars

\* A second session was started under a new id after the first was removed.
C6_Witness ==
    /\ ret.op = "start"
    /\ ret.success
    /\ ret.id = 2
    /\ Registered = {2}
    /\ procs[1].state = "dead"

\* C7: send_interactive_input with an id that is unknown or is not the
\* current session's returns success=false with the 'Session not found'
\* error, writes nothing, and leaves the registry, with the session's
\* last_activity, unchanged.
C7_SessionNotFound ==
    [][\A sid \in SessionIds, text \in InputTexts, nl \in BOOLEAN :
          ((sid # current_session_id \/ sid \notin Registered)
             /\ SendStep(sid, text, nl))
             => /\ ~ret'.raised
                /\ ~ret'.success
                /\ ret'.error = "not_found"
                /\ ret'.written = <<>>
                /\ UNCHANGED <<registry, uuid_count>>]_vars

\* An input for another id was refused while a session is registered.
C7_Witness ==
    /\ ret.op = "send"
    /\ ret.error = "not_found"
    /\ Registered # {}
    /\ now > active_sessions[current_session_id].last_activity

\* ------------------------------------------------------------------------
\* Properties of the policy checks and of the validator
\* ------------------------------------------------------------------------

\* The entries of a configured list, stripped, without the empty ones.
StrippedEntries(envvalue) ==
    LET parts == load_list(envvalue)
    IN {Strip(parts[i]) : i \in 1..Len(parts)} \ {<<>>}

\* The first word of a command, as the allow-list check takes it.
FirstWord(command) ==
    LET words == SplitWs(command, <<>>, <<>>)
    IN IF words # <<>> THEN words[1] ELSE <<>>

\* C8: the entries of the allow-list and of the restricted paths are the
\* configured entries stripped of surrounding whitespace, empty entries
\* ignored: 'pwd' is allowed under 'ls, pwd', and 'cat /etc/passwd' is
\* rejected under '/etc '.
C8_StrippedLists ==
    /\ (verdict.op = "allowed" /\ StrippedEntries(env.ALLOWED_COMMANDS) # {})
          => verdict.ok = (FirstWord(command_in) \in StrippedEntries(env.ALLOWED_COMMANDS))
    /\ verdict.op = "paths"
          => verdict.ok = ~ \E e \in StrippedEntries(env.RESTRICTED_PATHS) :
                                Contains(command_in, e)

\* C9: the allow-list check rejects a command exactly when an allow-list is
\* configured and the first token of the command under shell-quoting
\* tokenization is not a member.
C9_AllowListByShellToken ==
    (verdict.op = "allowed" /\ Parses(command_in))
       => verdict.ok = (\/ allowed_commands = <<>>
                        \/ InList(shlex_split(command_in).tokens[1], allowed_commands))

\* The state of the tokenizer before each character of s.
RECURSIVE QuoteStates(_, _, _, _, _)
QuoteStates(s, i, state, esc, acc) ==
    IF i > Len(s) THEN acc
    ELSE
    LET c == s[i]
        acc1 == Append(acc, state)
    IN
    CASE state \in {"dq", "sq"} ->
            IF c \in ShlexQuotes /\ QuoteState(c) = state
            THEN QuoteStates(s, i + 1, "a", esc, acc1)
            ELSE IF c = ShlexEscape /\ state = "dq"
            THEN QuoteStates(s, i + 1, "esc", "dq", acc1)
            ELSE QuoteStates(s, i + 1, state, esc, acc1)
      [] state = "esc" -> QuoteStates(s, i + 1, esc, esc, acc1)
      [] OTHER ->
            IF c \in ShlexWhitespace THEN QuoteStates(s, i + 1, "ws", esc, acc1)
            ELSE IF c \in ShlexQuotes THEN QuoteStates(s, i + 1, QuoteState(c), esc, acc1)
            ELSE IF c = ShlexEscape THEN QuoteStates(s, i + 1, "esc", "a", acc1)
            ELSE QuoteStates(s, i + 1, "a", esc, acc1)

\* pat occurs in s with all its characters outside quotes and unescaped.
OccursUnquoted(s, pat) ==
    LET st == QuoteStates(s, 1, "ws", "ws", <<>>) IN
    \E i \in 1..Len(s) :
        /\ i + Len(pat) - 1 <= Len(s)
        /\ SubSeq(s, i, i + Len(pat) - 1) = pat
        /\ \A j \in i..(i + Len(pat) - 1) : st[j] \in {"ws", "a"}

ChainingPatterns == { <<";">>, <<"&", "&">>, <<"|", "|">>, <<"|">> }
HasUnquotedChaining(s) == \E pat \in ChainingPatterns : OccursUnquoted(s, pat)

\* C10 as claimed: every command with ';', '&&', '||' or '|' outside quotes
\* is rejected with a dangerous-pattern error whose pattern occurs literally
\* in the command text.
C10_Original ==
    (verdict.op = "validate" /\ HasUnquotedChaining(command_in))
       => /\ verdict.error = "dangerous"
          /\ Contains(command_in, verdict.pattern)

\* C10 (amended): every command with ';', '&&', '||' or '|' outside quotes
\* is rejected, also when its first token is a safe command: with the
\* syntax error when its quoting is unbalanced, otherwise with a
\* dangerous-pattern error; the pattern named occurs literally in the
\* command text or is one of the command's tokens after quote removal.
C10_ChainingRejected ==
    (verdict.op = "validate" /\ HasUnquotedChaining(command_in))
       => LET parts == shlex_split(Strip(command_in)) IN
          /\ ~verdict.ok
          /\ ~parts.ok => verdict.error = "syntax"
          /\ parts.ok
                => /\ verdict.error = "dangerous"
                   /\ verdict.pattern # <<>>
                   /\ \/ Contains(command_in, verdict.pattern)
                      \/ InList(verdict.pattern, parts.tokens)

\* 'ls; rm -rf /' was rejected for ';'.
C10_Witness ==
    /\ verdict.op = "validate"
    /\ command_in = CmdLsRmRoot
    /\ verdict.error = "dangerous"
    /\ verdict.pattern = <<";">>

\* The chaining and redirection metacharacters.
MetaPatterns == ChainingPatterns \cup { <<">">>, <<">", ">">> }

\* The leading token of the command is an informational command, no other
\* token is itself a separator or redirection token, every metacharacter of
\* the text is inside quotes, and no destructive substring occurs.
QuotedMetaOnly(s) ==
    LET parts == shlex_split(Strip(s)) IN
    /\ parts.ok
    /\ parts.tokens # <<>>
    /\ parts.tokens[1] \in safe_commands
    /\ FirstBadToken(Tail(parts.tokens)) = <<>>
    /\ \E pat \in MetaPatterns : Contains(s, pat)
    /\ \A pat \in MetaPatterns : ~OccursUnquoted(s, pat)
    /\ FirstSubstring(dangerous_substrings, s) = <<>>

\* C11: a command whose leading token is an informational command, whose
\* chaining and redirection metacharacters all lie inside quoted arguments
\* and which has no destructive substring is accepted by
\* validate_command_security, e.g. echo "a;b".
C11_QuotedMetacharAccepted ==
    (verdict.op = "validate" /\ QuotedMetaOnly(command_in)) => verdict.ok

\* ------------------------------------------------------------------------
\* Properties of simple commands and of the start of a session
\* ------------------------------------------------------------------------

\* A step of execute_simple_command.
ExecStep(command) ==
    /\ ret'.op = "exec"
    /\ \E timeout \in Timeouts : execute_simple_command(command, timeout, NoEnvironment)

\* The command is empty or tokenizes to nothing.
Blank(command) ==
    shlex_split(Strip(command)).ok /\ shlex_split(Strip(command)).tokens = <<>>

\* C12: execute_simple_command and start_interactive_command reject a
\* command that is empty or tokenizes to nothing as empty, under every
\* policy, and spawn no process for it.
C12_BlankRejected ==
    [][\A command \in RegistryCommands \cup {command_in} :
          (Blank(command) /\ (ExecStep(command) \/ StartStep(command)))
             => /\ ~ret'.raised
                /\ ~ret'.success
                /\ ret'.error = "empty"
                /\ ~ret'.spawned]_vars

\* C13: no call of the executor raises an exception to its caller, whatever
\* the input and the configured allow-list.
C13_NeverRaises == ~ret.raised

\* C14: when execute_simple_command rejects a command by policy, no process
\* is spawned at any point of the call and nothing of the executor changes;
\* the result it returns has success=false, the error of the failed check,
\* execution_time exactly 0 and exit_code null.
C14_PolicyRejection ==
    [][(~PassesPolicy(command_in) /\ ExecStep(command_in))
       => /\ ~ret'.spawned
          /\ ret'.process = "none"
          /\ UNCHANGED <<registry, uuid_count>>
          /\ ~ret'.raised
                => /\ ~ret'.success
                   /\ ret'.error \in {"not_allowed", "restricted"}
                   /\ ret'.execution_time = "zero"
                   /\ ret'.exit_code = ExitNone]_vars

\* A simple command was rejected for a restricted path.
C14_Witness ==
    /\ ret.op = "exec"
    /\ ret.error = "restricted"
    /\ restricted_paths # <<>>
    /\ ~ret.spawned

\* C15: when the process of a simple command has not exited by the timeout,
\* it is killed and waited on before the result is returned, and the result
\* has success=false, the timeout error and exit_code null.
C15_TimeoutResult ==
    [][(ret'.outcome \in {"deadline", "late_exit"} /\ ExecStep(command_in))
       => /\ ret'.spawned
          /\ ret'.process = "reaped"
          /\ ~ret'.success
          /\ ret'.error = "timeout"
          /\ ret'.exit_code = ExitNone]_vars

\* C16: when the process of a simple command exits before the timeout the
\* result has the exit code of the process, success = (exit_code = 0) and
\* no error message; every successful result of execute_simple_command has
\* exit_code 0.
C16_ExitCode ==
    [][ExecStep(command_in)
       => /\ ret'.outcome \in {"exited", "missing"}
             => /\ ret'.exit_code \in ExitCodes \cup {ShellNotFound}
                /\ ret'.success = (ret'.exit_code = 0)
                /\ ret'.error = "none"
                /\ ret'.process = "reaped"
          /\ ret'.success => ret'.exit_code = 0]_vars

\* A simple command exited with a non-zero code and was reported as failed.
C16_Witness ==
    /\ ret.op = "exec"
    /\ ret.outcome = "exited"
    /\ ret.exit_code = 1
    /\ ~ret.success

\* C17: a spawn-level failure of a simple command, a missing executable
\* included, gives success=false, an error message and exit_code null.
C17_SpawnFailure ==
    [][(ret'.outcome \in {"oserror", "missing"} /\ ExecStep(command_in))
       => /\ ~ret'.success
          /\ ret'.error # "none"
          /\ ret'.exit_code = ExitNone]_vars

\* The process of the current session is running.
CurrentRunning ==
    /\ current_session_id \in Registered
    /\ procs[active_sessions[current_session_id].child].state = "alive"

\* C18: start_interactive_command refuses a request as 'already active'
\* only when the registered session's process is alive at the call; when
\* that process has exited, the call removes the session and starts the new
\* one (a valid command succeeds unless the spawn or a statement after it
\* fails).
C18_SweepBeforeStart ==
    [][\A command \in RegistryCommands :
          StartStep(command)
             => /\ ret'.error = "already_active" => CurrentRunning
                /\ (PassesPolicy(command) /\ ~CurrentRunning)
                      => /\ ret'.swept = Registered
                         /\ Registered \cap DOMAIN active_sessions' = {}
                         /\ Parses(command)
                               => \/ ret'.success
                                  \/ ret'.error \in {"spawn", "after_spawn"}]_vars

\* A start found the registered session's process dead, removed the session
\* and started the new one.
C18_Witness ==
    /\ ret.op = "start"
    /\ ret.success
    /\ ret.swept # {}
    /\ Registered = {ret.id}
    /\ ret.swept \cap Registered = {}

\* C19: a bounded read that sees no output within its window is a success:
\* start_interactive_command with a silent process returns success=true
\* with empty stdout and the session registered, and send_interactive_input
\* with no reply returns success=true, empty stdout and is_interactive=true
\* with the session still registered.
C19_SilenceIsSuccess ==
    [][/\ \A command \in RegistryCommands :
            (ret'.read = "timeout" /\ StartStep(command))
               => /\ ret'.success
                  /\ ret'.error = "none"
                  /\ ret'.stdout = <<>>
                  /\ ret'.is_interactive
                  /\ ret'.id \in DOMAIN active_sessions'
                  /\ current_session_id' = ret'.id
       /\ \A sid \in SessionIds, text \in InputTexts, nl \in BOOLEAN :
            (ret'.read = "timeout" /\ SendStep(sid, text, nl))
               => /\ ret'.success
                  /\ ret'.error = "none"
                  /\ ret'.stdout = <<>>
                  /\ ret'.is_interactive
                  /\ sid \in DOMAIN active_sessions'
                  /\ current_session_id' = sid]_vars

\* An input got no reply within the window and the session is still there.
C19_Witness ==
    /\ ret.op = "send"
    /\ ret.read = "timeout"
    /\ ret.success
    /\ ret.stdout = <<>>
    /\ ret.session_id \in Registered

\* C20: start_interactive_command splits the command with the tokenizer of
\* the validator, launches the first token with the remaining tokens, in
\* order, as its arguments, and records the command text unchanged in the
\* session.
C20_ArgvFromShlex ==
    [][\A command \in RegistryCommands :
          (ret'.success /\ StartStep(command))
             => LET parts == shlex_split(Strip(command)) IN
                /\ parts.ok
                /\ parts.tokens # <<>>
                /\ ret'.spawned
                /\ ret'.argv = parts.tokens
                /\ ret'.id \in DOMAIN active_sessions'
                /\ active_sessions'[ret'.id].command = command]_vars

\* sh "x" was started as the executable sh with the argument x.
C20_Witness ==
    /\ ret.op = "start"
    /\ ret.success
    /\ ret.argv = << <<"s", "h">>, <<"x">> >>
    /\ ret.id \in Registered
    /\ active_sessions[ret.id].command = CmdShQuoted

\* C21 (as stated): when a start request is refused because a session is
\* alive, the error message of the result contains the command of the
\* already-active session.
C21_Original ==
    [][\A command \in RegistryCommands :
          (ret'.error = "already_active" /\ StartStep(command))
             => Contains(already_active_message,
                         active_sessions[current_session_id].command)]_vars

\* C21: when a start request is refused because a session is alive, the
\* result names the command of the already-active session in its
\* command_executed field, whatever command the request asked for; its
\* error message is the fixed text of the refusal.
C21_NamesActiveCommand ==
    [][\A command \in RegistryCommands :
          (ret'.error = "already_active" /\ StartStep(command))
             => /\ current_session_id \in Registered
                /\ ret'.command_executed
                      = active_sessions[current_session_id].command
                /\ ret'.session_id = current_session_id
                /\ ~ret'.success]_vars

\* A start was refused and its result carries the command of the session
\* that is running.
C21_Witness ==
    /\ ret.op = "start"
    /\ ret.error = "already_active"
    /\ ret.command_executed = CmdSh
    /\ \E k \in Registered : active_sessions[k].command = CmdSh

\* The process of a registered session is alive / has exited.
EntryAlive(k) == isalive(procs, active_sessions[k].child)
\* The sessions whose process is alive.
LiveEntries == {k \in Registered : EntryAlive(k)}
\* The ids of a set of SessionInfo values.
InfoIds(infos) == {i.session_id : i \in infos}

\* C22 (as stated): get_session_info and list_active_sessions never return
\* a session whose process had already exited when the call began,
\* get_session_info returns nothing exactly when no entry with that id
\* remains after the sweep, and every SessionInfo they return has status
\* 'active'.
C22_Original ==
    [][/\ \A sid \in SessionIds :
            InfoStep(sid)
               => /\ InfoIds(ret'.infos) \subseteq LiveEntries
                  /\ ~ret'.value <=> sid \notin LiveEntries
                  /\ \A i \in ret'.infos : i.status = "active"
       /\ ListStep
            => /\ InfoIds(ret'.infos) \subseteq LiveEntries
               /\ \A i \in ret'.infos : i.status = "active"]_vars

\* C22: get_session_info and list_active_sessions sweep first: every
\* session whose process had exited when the call began is removed and is
\* not returned, get_session_info returns nothing exactly when no entry
\* with that id remains after the sweep, list_active_sessions returns the
\* remaining entries, and the status of a SessionInfo is 'active' when the
\* process is still alive at the return and 'terminated' when it exited
\* after the sweep, during the call.
C22_SweepThenReport ==
    [][/\ \A sid \in SessionIds :
            InfoStep(sid)
               => /\ DOMAIN active_sessions' = LiveEntries
                  /\ ~ret'.value <=> sid \notin LiveEntries
                  /\ ret'.value => InfoIds(ret'.infos) = {sid}
                  /\ ~ret'.value => ret'.infos = {}
       /\ ListStep
            => /\ DOMAIN active_sessions' = LiveEntries
               /\ InfoIds(ret'.infos) = LiveEntries
       /\ (ret'.op \in {"info", "list"} /\ (GetSessionInfo \/ ListActiveSessions))
            => \A i \in ret'.infos :
                  /\ i.command = active_sessions[i.session_id].command
                  /\ i.created_at = active_sessions[i.session_id].created_at
                  /\ i.last_activity = active_sessions[i.session_id].last_activity
                  /\ i.status \in {"active", "terminated"}
                  /\ i.status = "active"
                        <=> isalive(procs', active_sessions'[i.session_id].child)]_vars

\* A session's process exited between the sweep and the status test of
\* get_session_info: the SessionInfo says 'terminated'.
C22_Witness ==
    /\ ret.op = "info"
    /\ ret.value
    /\ \E i \in ret.infos :
          /\ i.status = "terminated"
          /\ i.session_id \in Registered
          /\ ~EntryAlive(i.session_id)

\* The caller sends an input to the session it was given.
SendToSession ==
    /\ current_session_id # None
    /\ \E input_text \in InputTexts, send_newline \in BOOLEAN :
          send_interactive_input(current_session_id, input_text, send_newline)

\* The executor with a caller that keeps sending input to its session.
SpecLive == Spec /\ WF_vars(SendToSession)

\* Chunk c of the output of the registered session has been written by its
\* process / has been returned to the caller.
Emitted(c) == procs[current_session_id].emitted >= c
Delivered(c) == procs[current_session_id].delivered >= c

ApiKeys == {<<>>, <<"k">>}
\* Credentials of a request: no Authorization header, or a bearer token.
NoCredentials == <<>>
Credentials == {NoCredentials, <<"k">>, <<"j">>}
\* environment of a CommandRequest: none, a variable the service has, a
\* variable it does not have.
Environments == {NoEnvironment, "API_KEY" :> <<"j">>, "LANG" :> <<"C">>}
CommandTypes == {"simple", "interactive", "background"}
\* Commands of the requests: one the request model accepts, one it rejects;
\* their timeout is left at its default.
HttpCommands == {CmdSh, CmdBlank}
HttpTimeouts == {DefaultTimeout}
\* CommandRequest(command=...) for each of them: the field validator runs.
CommandRequest == [command \in HttpCommands |-> validate_command_security(command)]
\* answer of /interactive/{session_id}/yes-no
yes_no(answer) == IF answer THEN <<"y">> ELSE <<"n">>

\* os.environ of the service.
HttpEnvs ==
    {[ALLOWED_COMMANDS |-> <<>>, RESTRICTED_PATHS |-> <<>>, API_KEY |-> k] :
        k \in ApiKeys}

\* API_KEY = os.getenv('API_KEY')
API_KEY == env.API_KEY

\* security = HTTPBearer(): a request without credentials does not pass.
security(credentials) == credentials # NoCredentials

\* verify_api_key: passes unless a key is set and the token differs from it.
verify_api_key(credentials) == ~(API_KEY # <<>> /\ credentials # API_KEY)

\* status_code of the HTTPException raised for a reason: 403 from
\* HTTPBearer, 401 from verify_api_key, 422 from the request model, 400 and
\* 500 from the handlers.
status_code(detail) ==
    CASE detail = "forbidden" -> 403
      [] detail = "unauthorized" -> 401
      [] detail = "unprocessable" -> 422
      [] detail = "not_implemented" -> 400
      [] OTHER -> 500

\* execute_command's only handler, `except Exception as e`: whatever is
\* raised inside its try, an HTTPException included, is answered with the
\* 500 "Command execution failed: ...".
except_Exception(raised) == "execution_failed"

\* The response to a request answered with an HTTP error before the
\* executor is called.
http_error(detail) ==
    [NoRet EXCEPT !.op = "http", !.error = detail, !.status = status_code(detail)]

HttpError(detail) ==
    /\ pc = Idle
    /\ ret' = http_error(detail)
    /\ UNCHANGED <<registry, policy, harness, uuid_count, now, pc>>

\* api_key: str = Depends(verify_api_key): the handler runs for a request
\* that passes HTTPBearer and verify_api_key.
Depends(credentials, handler) ==
    IF ~security(credentials) THEN HttpError("forbidden")
    ELSE IF ~verify_api_key(credentials) THEN HttpError("unauthorized")
    ELSE handler

\* POST /execute: execute_command.  The request model validates the command
\* and hands its stripped value to the handler; an exception of the
\* executor (ret.raised) becomes a response with status 500.
post_execute(credentials, command_type, command, timeout, environment) ==
    Depends(credentials,
            LET request == CommandRequest[command] IN
            IF ~request.ok THEN HttpError("unprocessable")
            ELSE IF command_type = "simple"
            THEN execute_simple_command(request.value, timeout, environment)
            ELSE IF command_type = "interactive"
            THEN start_interactive_command(request.value, environment)
            ELSE \* raise HTTPException(status_code=400, ...) inside the try
                 HttpError(except_Exception("not_implemented")))

\* POST /interactive/{session_id}: send_interactive_input
post_interactive(credentials, session_id, input_text, send_newline) ==
    Depends(credentials,
            http_send_interactive_input(session_id, input_text, send_newline))

\* GET /sessions: list_sessions; its cleanup_inactive_sessions() is the
\* sweep list_active_sessions starts with.
get_sessions(credentials) == Depends(credentials, list_active_sessions)

\* GET /sessions/{session_id}: get_session_info
get_session(credentials, session_id) ==
    Depends(credentials, get_session_info(session_id))

\* DELETE /sessions/{session_id}: terminate_session
delete_session(credentials, session_id) ==
    Depends(credentials, terminate_session(session_id))

\* GET /system/status: get_system_status reads len(active_sessions).
get_system_status(credentials) ==
    Depends(credentials,
            /\ pc = Idle
            /\ ret' = [NoRet EXCEPT !.op = "status",
                                    !.value = Cardinality(DOMAIN active_sessions) > 0]
            /\ UNCHANGED <<registry, policy, harness, uuid_count, now, pc>>)

\* POST /interactive/{session_id}/yes-no: handle_yes_no_prompt
post_yes_no(credentials, session_id, answer) ==
    Depends(credentials, send_interactive_input(session_id, yes_no(answer), TRUE))

\* A request to a command or session operation with these credentials.
HttpRequest(credentials) ==
    \/ \E command_type \in CommandTypes, command \in HttpCommands,
          timeout \in HttpTimeouts, environment \in Environments :
          post_execute(credentials, command_type, command, timeout, environment)
    \/ \E session_id \in SessionIds, input_text \in InputTexts,
          send_newline \in BOOLEAN :
          post_interactive(credentials, session_id, input_text, send_newline)
    \/ get_sessions(credentials)
    \/ \E session_id \in SessionIds : get_session(credentials, session_id)
    \/ \E session_id \in SessionIds : delete_session(credentials, session_id)
    \/ get_system_status(credentials)
    \/ \E session_id \in SessionIds, answer \in BOOLEAN :
          post_yes_no(credentials, session_id, answer)

\* The service is started.
InitHttp ==
    /\ InitRegistry
    /\ \E e \in HttpEnvs : InitPolicy(e)
    /\ command_in = <<>>
    /\ verdict = NoVerdict

NextHttp ==
    \/ \E credentials \in Credentials : HttpRequest(credentials)
    \/ TerminateReturns
    \/ ProcExit
    \/ ProcOutput

SpecHttp == InitHttp /\ [][NextHttp]_vars

\* The credentials are missing or are not the configured key.
Unauthenticated(credentials) ==
    credentials = NoCredentials \/ credentials # API_KEY

\* C24: a request to a command or session operation that carries no bearer
\* credential, or a token different from the configured API key, is refused
\* before the executor is reached: it executes no command, spawns no
\* process and changes no registry state.
C24_UnauthenticatedRefused ==
    [][\A credentials \in Credentials :
          (Unauthenticated(credentials) /\ HttpRequest(credentials))
             => /\ ret'.op = "http"
                /\ ret'.error \in {"forbidden", "unauthorized"}
                /\ ~ret'.spawned
                /\ UNCHANGED <<registry, uuid_count>>]_vars

\* POST /execute of an authorized caller started a process.
SpawnStep(credentials, command_type, command, timeout, environment) ==
    /\ ret'.spawned
    /\ ret'.op = (IF command_type = "simple" THEN "exec" ELSE "start")
    /\ security(credentials)
    /\ post_execute(credentials, command_type, command, timeout, environment)

\* C25: the environment given to a spawned process, for both simple and
\* interactive commands, is the parent environment merged with the
\* caller's overrides: it has the keys of both, every override key has the
\* caller's value, and every other key has the parent's value.
C25_MergedEnvironment ==
    [][\A credentials \in Credentials, command_type \in CommandTypes,
          command \in HttpCommands, timeout \in HttpTimeouts,
          environment \in Environments :
          SpawnStep(credentials, command_type, command, timeout, environment)
             => /\ DOMAIN ret'.env = DOMAIN env \cup DOMAIN environment
                /\ \A key \in DOMAIN environment :
                      ret'.env[key] = environment[key]
                /\ \A key \in DOMAIN env \ DOMAIN environment :
                      ret'.env[key] = env[key]]_vars

\* An interactive command was started with an override of a variable of the
\* service and the rest of the parent environment.
C25_Witness ==
    /\ ret.op = "start"
    /\ ret.spawned
    /\ env.API_KEY = <<"k">>
    /\ ret.env.API_KEY = <<"j">>
    /\ ret.env.ALLOWED_COMMANDS = env.ALLOWED_COMMANDS

\* ------------------------------------------------------------------------
\* The request loop (main.py): coroutine handlers on one event loop thread
\* ------------------------------------------------------------------------

\* The event loop thread is between handlers.  A handler is a coroutine
\* (async def): it has the thread from the moment it is resumed until it
\* awaits or returns, and the handlers of the interactive operations call
\* the executor's synchronous methods without an await.
LoopFree == pc = Idle

\* execute_command with command_type interactive: the thread enters
\* command_executor.start_interactive_command(...)
StartEnters(command) ==
    /\ LoopFree
    /\ pc' = [at |-> "start", session_id |-> None]
    /\ command_in' = command
    /\ ret' = NoRet
    /\ UNCHANGED <<registry, policy, verdict, running, uuid_count, now>>

\* ... and leaves it with the result, after the bounded read.
StartReturns ==
    /\ pc.at = "start"
    /\ StartWith(command_in, NoEnvironment, TRUE)
    /\ pc' = Idle

\* send_interactive_input (main.py): the thread enters
\* command_executor.send_interactive_input(session_id, request.input_text)
SendEnters(session_id) ==
    /\ LoopFree
    /\ pc' = [at |-> "send", session_id |-> session_id]
    /\ ret' = NoRet
    /\ UNCHANGED <<registry, policy, harness, uuid_count, now>>

\* ... and leaves it with the result, after the bounded read.
SendReturns ==
    /\ pc.at = "send"
    /\ \E input_text \in InputTexts : SendWith(pc.session_id, input_text, TRUE)
    /\ pc' = Idle

\* GET /health: health_check
health_check ==
    /\ LoopFree
    /\ ret' = [NoRet EXCEPT !.op = "health", !.value = TRUE]
    /\ UNCHANGED <<registry, policy, harness, uuid_count, now, pc>>

NextLoop ==
    \/ \E command \in RegistryCommands : StartEnters(command)
    \/ StartReturns
    \/ \E session_id \in SessionIds : SendEnters(session_id)
    \/ SendReturns
    \/ health_check
    \/ ProcExit
    \/ ProcOutput

SpecLoop == Init /\ [][NextLoop]_vars

\* A call of start_interactive_command or send_interactive_input is in
\* progress and comes to its bounded read: a send to the live session, a
\* start of a command that passes the checks with no live session.
InReadWait ==
    \/ /\ pc.at = "send"
       /\ pc.session_id = current_session_id
       /\ SessionAlive
    \/ /\ pc.at = "start"
       /\ PassesPolicy(command_in)
       /\ Parses(command_in)
       /\ ~SessionAlive

\* C26: interactive session I/O runs off the main request-handling path:
\* while a start_interactive_command or send_interactive_input call is
\* inside its bounded read wait, the service can begin and complete other
\* requests such as a health check.
C26_LoopNotBlocked == InReadWait => ENABLED health_check

\* C27: whenever a bounded read on a session's process observes
\* end-of-stream, in send_interactive_input or in the startup read of
\* start_interactive_command, the session is destroyed before the operation
\* returns: its handle is terminated and its entry removed from the
\* registry.
C27_EofDestroysSession ==
    [][/\ \A command \in RegistryCommands :
            (ret'.read = "eof" /\ StartStep(command))
               => /\ ret'.id \notin DOMAIN active_sessions'
                  /\ current_session_id' # ret'.id
                  /\ procs'[ret'.id] = Reaped
       /\ \A sid \in SessionIds, text \in InputTexts, nl \in BOOLEAN :
            (ret'.read = "eof" /\ SendStep(sid, text, nl))
               => /\ sid \notin DOMAIN active_sessions'
                  /\ current_session_id' # sid
                  /\ procs'[active_sessions[sid].child] = Reaped]_vars

\* The simple-command handler with every step that can be taken taken.
SpecSimpleLive == SpecSimple /\ WF_vars(NextSimple)

\* C28: every simple command execution eventually returns a result: for
\* every timeout the request schema accepts, the omitted and the null one
\* included, an execution whose process does not exit on its own ends with
\* the process killed and the timeout result returned.
C28_TimeoutEnforced ==
    (ret.spawned /\ ret.outcome = "never")
        ~> (ret.op = "exec" /\ ret.error = "timeout" /\ ret.process = "reaped")

CleanupStep == ret'.op = "cleanup" /\ cleanup_inactive_sessions

\* C29: cleanup_inactive_sessions removes every registry entry whose
\* process is no longer alive and leaves an entry whose process is alive
\* completely unchanged: same id, command, created_at, last_activity and
\* process, and the same current session id.
C29_SweepFrame ==
    [][CleanupStep
          => \A k \in Registered :
                IF EntryAlive(k)
                THEN /\ k \in DOMAIN active_sessions'
                     /\ active_sessions'[k] = active_sessions[k]
                     /\ procs'[active_sessions[k].child]
                           = procs[active_sessions[k].child]
                     /\ current_session_id' = current_session_id
                ELSE /\ k \notin DOMAIN active_sessions'
                     /\ current_session_id' # k]_vars

\* A sweep ran over a session whose process is alive, and the session is
\* still registered and current.
C29_Witness ==
    /\ ret.op = "cleanup"
    /\ SessionAlive
    /\ procs[current_session_id].emitted > 0

\* The operations a caller can ask for, as recorded in their results.
CallerOperations == {"start", "send", "info", "list", "terminate", "cleanup"}

\* C30: the registry changes only as the direct effect of a caller
\* operation (start, send, get info, list, terminate, sweep): a session's
\* process that exits or writes on its own, and the passing of time, leave
\* the registry entry and the current session id in place until the next
\* such operation runs.
C30_RegistryChangesOnlyByCalls ==
    [][/\ (ret'.op = "none" /\ (ProcExit \/ ProcOutput \/ Tick))
            => UNCHANGED <<active_sessions, current_session_id>>
       /\ (active_sessions' # active_sessions
             \/ current_session_id' # current_session_id)
            => /\ ret'.op \in CallerOperations
               /\ \/ StartInteractive
                  \/ SendInput
                  \/ GetSessionInfo
                  \/ ListActiveSessions
                  \/ TerminateSession
                  \/ TerminateReturns
                  \/ CleanupInactiveSessions]_vars

\* The process of the registered session has exited on its own and no call
\* was made since: the session is still registered and current.
C30_Witness ==
    /\ ret = NoRet
    /\ now = 0
    /\ current_session_id \in Registered
    /\ procs[active_sessions[current_session_id].child].state = "dead"

\* ------------------------------------------------------------------------
\* Simple commands in flight next to the session registry
\* ------------------------------------------------------------------------

\* Simple commands in flight at once.
MaxRunning == 2
SimpleTimeouts == {None, DefaultTimeout}

\* seq without its i-th element.
RemoveAt(seq, i) == SubSeq(seq, 1, i - 1) \o SubSeq(seq, i + 1, Len(seq))

\* execute_simple_command up to its await of communicate(): the security
\* checks, the environment and create_subprocess_shell.  The coroutine runs
\* on the event loop thread, so it starts between two handlers.
ExecuteEnters(command, timeout) ==
    /\ LoopFree
    /\ Len(running) < MaxRunning
    /\ UNCHANGED <<registry, policy, command_in, verdict, uuid_count, now, pc>>
    /\ IF ~is_command_allowed(allowed_commands, command)
       THEN /\ ret' = IF SplitWs(command, <<>>, <<>>) = <<>>
                      THEN [NoRet EXCEPT !.op = "exec", !.raised = TRUE]
                      ELSE policy_rejection("exec", "not_allowed")
            /\ UNCHANGED running
       ELSE IF ~check_path_restrictions(restricted_paths, command)
       THEN /\ ret' = policy_rejection("exec", "restricted")
            /\ UNCHANGED running
       ELSE \/ /\ ret' = simple_result([kind |-> "oserror", exit_code |-> ExitNone])
               /\ UNCHANGED running
            \/ /\ ret' = [NoRet EXCEPT !.op = "exec_wait", !.spawned = TRUE]
               /\ running' = Append(running, [command |-> command, timeout |-> timeout])

\* A completion that also sweeps the session registry.
ExecuteReturns_sweeping ==
    /\ LoopFree
    /\ \E i \in DOMAIN running :
          /\ running' = RemoveAt(running, i)
          /\ ret' = [NoRet EXCEPT !.op = "exec"]
    /\ Commit(cleanup_inactive(RegNow))
    /\ UNCHANGED <<policy, command_in, verdict, uuid_count, now, pc>>

\* One of the suspended executions is resumed: communicate() has returned
\* or the timeout has passed, and the call returns its CommandResponse.
ExecuteReturns ==
    /\ LoopFree
    /\ \E i \in DOMAIN running :
          \E o \in SimpleOutcomes(running[i].command, running[i].timeout) :
             /\ o.kind \notin {"oserror", "never"}
             /\ running' = RemoveAt(running, i)
             /\ ret' = simple_result(o)
    /\ UNCHANGED <<registry, policy, command_in, verdict, uuid_count, now, pc>>

\* The registry operations that add, use and remove a session, the exit of
\* a session's process, and the two steps of a simple command.
NextConcurrent ==
    \/ start_interactive_command(CmdSh, NoEnvironment)
    \/ SendInput
    \/ TerminateSession
    \/ TerminateReturns
    \/ CleanupInactiveSessions
    \/ ProcExit
    \/ \E command \in HttpCommands, timeout \in SimpleTimeouts :
          ExecuteEnters(command, timeout)
    \/ ExecuteReturns

SpecConcurrent == Init /\ [][NextConcurrent]_vars

\* C31: execute_simple_command neither reads nor writes the session
\* registry: simple commands run concurrently with each other and with an
\* interactive session, and in every interleaving active_sessions and
\* current_session_id are what they would be without the simple commands:
\* no step of a simple command changes them, and every change of them is a
\* step of a registry operation that leaves the simple commands alone.
C31_SimpleCommandsApart ==
    [][/\ (running' # running \/ ret'.op \in {"exec", "exec_wait"})
            => UNCHANGED <<active_sessions, current_session_id, procs, uuid_count>>
       /\ (active_sessions' # active_sessions
             \/ current_session_id' # current_session_id)
            => (running' = running /\ Next)]_vars

\* A simple command has just returned with another one still in flight,
\* while an interactive session is registered with its process alive.
C31_Witness ==
    /\ Len(running) = MaxRunning - 1
    /\ ret.op = "exec"
    /\ ret.spawned
    /\ SessionAlive

\* The children the executor spawned as sessions that are still running.
AliveChildren == {p \in SessionIds : isalive(procs, p)}

\* Every running child belongs to the session that is registered and
\* current.
OwnedByRegistry ==
    \A p \in AliveChildren :
        /\ current_session_id \in Registered
        /\ active_sessions[current_session_id].child = p

\* C32: no interactive process is leaked: whenever no operation is in
\* progress, every process spawned for a session that is still alive is the
\* process of the single registered session; every step that drops an entry
\* (terminate, end-of-stream, sweep, start) leaves the entry's process not
\* alive, so after terminate_session returns true the process is not alive.
C32_NoProcessLeaked ==
    /\ [](pc = Idle => OwnedByRegistry)
    /\ [][\A k \in Registered :
             k \notin DOMAIN active_sessions'
                => ~isalive(procs', active_sessions[k].child)]_vars

\* terminate_session returned true for the second session of the run: no
\* child is running and both sessions' processes have been waited for.
C32_Witness ==
    /\ pc = Idle
    /\ ret.op = "terminate"
    /\ ret.value = TRUE
    /\ uuid_count = 2
    /\ AliveChildren = {}
    /\ procs[2] = Reaped

\* C33: for every session, created_at never changes, last_activity is never
\* earlier than created_at and never decreases, and every
\* send_interactive_input call that reaches the session (the id matches)
\* sets last_activity to the time of that call, also when the write or the
\* read fails.
C33_ActivityRecorded ==
    [][/\ \A k \in Registered \cap DOMAIN active_sessions' :
            /\ active_sessions'[k].created_at = active_sessions[k].created_at
            /\ active_sessions'[k].last_activity >= active_sessions[k].last_activity
            /\ active_sessions'[k].last_activity >= active_sessions'[k].created_at
       /\ \A sid \in Registered \cap DOMAIN active_sessions' :
            \A text \in InputTexts, nl \in BOOLEAN :
               (/\ session_found(active_sessions, current_session_id, sid)
                /\ SendStep(sid, text, nl))
                  => active_sessions'[sid].last_activity = now]_vars

\* C34: a request to /execute with command_type 'background' is answered
\* with the 400 'not implemented yet' error, runs no command and changes
\* no registry state.
C34_BackgroundNotImplemented ==
    [][\A credentials \in Credentials, command \in HttpCommands,
          timeout \in HttpTimeouts, environment \in Environments :
          (/\ ret'.op = "http"
           /\ security(credentials)
           /\ verify_api_key(credentials)
           /\ CommandRequest[command].ok
           /\ post_execute(credentials, "background", command, timeout, environment))
             => /\ ret'.status = 400
                /\ ret'.error = "not_implemented"
                /\ ~ret'.spawned
                /\ UNCHANGED <<registry, uuid_count>>]_vars

\* t is s without a run of whitespace at its start and at its end, and
\* starts and ends with other characters.
Trimmed(s, t) ==
    /\ t # <<>>
    /\ t[1] \notin PyWhitespace
    /\ t[Len(t)] \notin PyWhitespace
    /\ \E i \in 1..Len(s) :
          /\ i + Len(t) - 1 <= Len(s)
          /\ SubSeq(s, i, i + Len(t) - 1) = t
          /\ \A k \in 1..(i - 1) : s[k] \in PyWhitespace
          /\ \A k \in (i + Len(t))..Len(s) : s[k] \in PyWhitespace

\* C35: when validate_command_security accepts a command it returns the
\* command with leading and trailing whitespace removed and otherwise
\* unchanged, and validation is idempotent: validating the returned string
\* accepts it and returns it unchanged.
C35_TrimmedAndIdempotent ==
    (verdict.op = "validate" /\ verdict.ok)
        => /\ Trimmed(command_in, verdict.value)
           /\ validate_command_security(verdict.value) = Accepted(verdict.value)

\* A command with whitespace on both sides was accepted.
C35_Witness ==
    /\ verdict.op = "validate"
    /\ verdict.ok
    /\ command_in = <<" ">> \o verdict.value \o <<" ">>

\* C36: in every reachable state between operations, current_session_id is
\* null exactly when active_sessions is empty, and otherwise it equals the
\* single key of active_sessions.
C36_CurrentIsTheOnlyKey ==
    pc = Idle
        => /\ current_session_id = None <=> Registered = {}
           /\ current_session_id # None => Registered = {current_session_id}

\* The second session of the run ended in a send that read the end of the
\* stream: the registry is empty and no session is current.
C36_Witness ==
    /\ pc = Idle
    /\ ret.op = "send"
    /\ ret.read = "eof"
    /\ ret.session_id = 2
    /\ current_session_id = None
    /\ Registered = {}

\* C37: whenever start_interactive_command returns success=false for a
\* reason other than 'already active' (policy rejection, unparsable or
\* empty command, spawn failure, or a failure after the process was
\* spawned), no session entry has been recorded and no spawned process is
\* left alive: the attempt leaves nothing in the registry that could refuse
\* a following valid start.
C37_FailedStartLeavesNothing ==
    [][\A command \in RegistryCommands :
          (/\ ~ret'.raised
           /\ ~ret'.success
           /\ ret'.error # "already_active"
           /\ StartStep(command))
             => /\ DOMAIN active_sessions' \subseteq Registered
                /\ current_session_id' \in {current_session_id, None}
                /\ \A p \in SessionIds : isalive(procs', p) => isalive(procs, p)]_vars

\* C38: a send_interactive_input result for an id that matched the current
\* session reports is_interactive=false exactly when the session has been
\* removed from the registry by that call; whenever the session is still
\* registered after the call (output read, no output yet, or an I/O error),
\* the result reports is_interactive=true.
C38_InteractiveFlag ==
    [][\A sid \in Registered, text \in InputTexts, nl \in BOOLEAN :
          (/\ session_found(active_sessions, current_session_id, sid)
           /\ SendStep(sid, text, nl))
             => (ret'.is_interactive <=> sid \in DOMAIN active_sessions')]_vars

\* The executor with every child.wait() returning once its child has
\* exited.  Nothing makes a child exit: one that ignores the signals of
\* child.terminate() runs for as long as it likes.
SpecWait == Spec /\ WF_vars(TerminateReturns)

\* C39: terminate_session, and every other operation that removes a
\* session (sweep, end-of-stream teardown), eventually returns for every
\* session, including one whose process does not exit in response to the
\* graceful termination request.
C39_RemovalReturns == (pc # Idle) ~> (pc = Idle)

====
